---- MODULE Spec2Model ----
(***************************************************************************)
(* Model of the uhttp_uri crate (src/src/lib.rs): HttpScheme, HttpResource *)
(* and HttpUri, their parsers and their Display implementations.           *)
(*                                                                         *)
(* A Rust &str is modelled as a sequence of one-character strings; the     *)
(* characters used are ASCII, so byte offsets and character offsets agree. *)
(* Offsets are 0-based as in the source; sequences are 1-based.            *)
(***************************************************************************)
EXTENDS Integers, Sequences, FiniteSets, TLC

VARIABLES
    s,       \* the input string handed to a parser
    pc,      \* the last operation the caller completed
    uri,     \* the result of HttpUri::new(s)
    raw,     \* the (path, query, fragment) tuple parts returned to HttpResource::new
    res,     \* the result of HttpResource::new(s)
    scheme,  \* the result of s.parse::<HttpScheme>()
    out,     \* the text written by Display
    back     \* the result of parsing out again

vars == <<s, pc, uri, raw, res, scheme, out, back>>

(***************************************************************************)
(* Bounds and the input universe.                                          *)
(***************************************************************************)
MaxLen == 4

Alphabet == {"a", "/", "?", "#", ":"}

Bodies == UNION {[1..n -> Alphabet] : n \in 0..MaxLen}

Prefixes ==
    { <<>>,
      <<"h","t","t","p">>,
      <<"h","t","t","p","s">>,
      <<"h","t","t","p",":","/","/">>,
      <<"h","t","t","p","s",":","/","/">>,
      <<"h","t","t","p",":","/","/","a">>,
      <<"h","t","t">>,
      <<"h","t","t","p","s","s">>,
      <<"H","T","T","P">>,
      <<"H","T","T","P",":","/","/">>,
      <<"f","t","p",":","/","/">>,
      <<"h","t","t","p","s","s",":","/","/">>,
      <<"h","t","t",":","p","/","/">> }

\* Longer inputs: those of the crate's tests and documentation, and variations.
Examples ==
    { <<"/","a","?","x","#","y","?","z">>,
      <<"/","a","#","y","?","z">>,
      <<"/","a","?","?","b">>,
      <<"/","a","#","#","b">>,
      <<"/","a","/","b","/","c","?","k","=","v","&","p","#","f">>,
      <<"/","a","/","b","/","c","#","f","?","p","&","k","=","v">>,
      <<"?","k","=","v","#">>,
      <<"/","a","?","?","#","#","?">>,
      <<"h","t","t","p",":","/","/","a","/","b",":","/","/","c">>,
      <<"h","t","t","p",":","/","/","t",".","c","/","n","?","t","=","3">>,
      <<"h","t","t","p","s",":","/","/","e",":","4","/","r","?","k","=","v","#","t">>,
      <<"f","i","l","e",":","e">>,
      <<"h","y","p","e","r",".","r","s","/">>,
      <<"h","y","p","e","r",".","r","s","?","k","=","v">> }

Inputs == {p \o b : p \in Prefixes, b \in Bodies} \cup Examples

(***************************************************************************)
(* Option, Result and panics.                                              *)
(***************************************************************************)
None == [tag |-> "None"]

Some(x) == [tag |-> "Some", val |-> x]

Err == [tag |-> "Err"]

Ok(x) == [tag |-> "Ok", val |-> x]

\* A call that panicked (a slice index out of range) returns nothing.
Panic == [tag |-> "Panic"]

\* The value of a string expression whose evaluation panicked.
PanicStr == <<"panic">>

NoValue == [tag |-> "NoValue"]

(***************************************************************************)
(* core::str operations used by the crate.                                 *)
(***************************************************************************)
MinOf(S) == CHOOSE i \in S : \A j \in S : i <= j

MatchesAt(str, pat, i) ==
    /\ i + Len(pat) <= Len(str)
    /\ \A k \in 1..Len(pat) : str[i + k] = pat[k]

\* str::find: the offset of the first match of pat, if any.
Find(str, pat) ==
    LET hits == {i \in 0..Len(str) : MatchesAt(str, pat, i)}
    IN  IF hits = {} THEN None ELSE Some(MinOf(hits))

\* &str[lo..hi]: panics unless lo <= hi <= len.
Slice(str, lo, hi) ==
    IF str = PanicStr \/ lo < 0 \/ lo > hi \/ hi > Len(str)
    THEN PanicStr
    ELSE SubSeq(str, lo + 1, hi)

\* &str[lo..]
SliceFrom(str, lo) ==
    IF str = PanicStr THEN PanicStr ELSE Slice(str, lo, Len(str))

\* &str[..hi]
SliceTo(str, hi) == Slice(str, 0, hi)

\* str::split_at(mid): panics when mid is past the end.
SplitAt(str, mid) == <<SliceTo(str, mid), SliceFrom(str, mid)>>

IsEmpty(str) == Len(str) = 0

(***************************************************************************)
(* HttpScheme                                                              *)
(***************************************************************************)
HttpStr == <<"h","t","t","p">>

HttpsStr == <<"h","t","t","p","s">>

\* Variant: a token is accepted when it merely begins with a scheme name.
HttpSchemeFromStrPrefix(str) ==
    CASE Len(str) >= 5 /\ SubSeq(str, 1, 5) = HttpsStr -> Ok("Https")
      [] Len(str) >= 4 /\ SubSeq(str, 1, 4) = HttpStr  -> Ok("Http")
      [] OTHER                                          -> Err

\* impl FromStr for HttpScheme
HttpSchemeFromStr(str) ==
    CASE str = HttpStr  -> Ok("Http")
      [] str = HttpsStr -> Ok("Https")
      [] OTHER          -> Err

\* impl Display for HttpScheme
FmtHttpScheme(x) ==
    CASE x = "Http"  -> HttpStr
      [] x = "Https" -> HttpsStr

(***************************************************************************)
(* HttpResource                                                            *)
(***************************************************************************)
\* Variants: the delimiter is kept; one byte too many is dropped.
DropDelimKeep(str) == SliceFrom(str, 0)

DropDelimTwo(str) == SliceFrom(str, 2)

\* &query[1..] and &frag[1..]: the slice after its one-byte delimiter.
DropDelim(str) == SliceFrom(str, 1)

\* Variant of parts: when '#' precedes '?', the fallback keeps the '?' and drops
\* the '#' (parts(s, Some(q), None)).
partsQueryFirst(str, qidx, fidx) ==
    CASE qidx.tag = "Some" /\ fidx.tag = "Some" /\ qidx.val < fidx.val ->
            LET pq == SplitAt(SliceTo(str, fidx.val), qidx.val)
                fr == SplitAt(str, fidx.val)
            IN  [path  |-> pq[1],
                 query |-> DropDelim(pq[2]),
                 frag  |-> DropDelim(fr[2]),
                 calls |-> 1]
      [] qidx.tag = "Some" ->
            LET pq == SplitAt(str, qidx.val)
            IN  [path  |-> pq[1],
                 query |-> DropDelim(pq[2]),
                 frag  |-> <<>>,
                 calls |-> IF fidx.tag = "Some" THEN 2 ELSE 1]
      [] qidx.tag = "None" /\ fidx.tag = "Some" ->
            LET pf == SplitAt(str, fidx.val)
            IN  [path  |-> pf[1],
                 query |-> <<>>,
                 frag  |-> DropDelim(pf[2]),
                 calls |-> 1]
      [] qidx.tag = "None" /\ fidx.tag = "None" ->
            [path |-> str, query |-> <<>>, frag |-> <<>>, calls |-> 1]

\* Variant of parts: with '?' before '#', the query is split off the whole
\* string (s.split_at(q)) instead of off s[..f].
partsQueryToEnd(str, qidx, fidx) ==
    CASE qidx.tag = "Some" /\ fidx.tag = "Some" /\ qidx.val < fidx.val ->
            LET pq == SplitAt(str, qidx.val)
                fr == SplitAt(str, fidx.val)
            IN  [path  |-> pq[1],
                 query |-> DropDelim(pq[2]),
                 frag  |-> DropDelim(fr[2]),
                 calls |-> 1]
      [] qidx.tag = "Some" /\ fidx.tag = "None" ->
            LET pq == SplitAt(str, qidx.val)
            IN  [path  |-> pq[1],
                 query |-> DropDelim(pq[2]),
                 frag  |-> <<>>,
                 calls |-> 1]
      [] fidx.tag = "Some" ->
            LET pf == SplitAt(str, fidx.val)
            IN  [path  |-> pf[1],
                 query |-> <<>>,
                 frag  |-> DropDelim(pf[2]),
                 calls |-> IF qidx.tag = "Some" THEN 2 ELSE 1]
      [] qidx.tag = "None" /\ fidx.tag = "None" ->
            [path |-> str, query |-> <<>>, frag |-> <<>>, calls |-> 1]


\* fn parts: the three raw slices, and the number of times parts was entered.
RECURSIVE parts(_, _, _)
parts(str, qidx, fidx) ==
    CASE qidx.tag = "Some" /\ fidx.tag = "Some" ->
            IF qidx.val < fidx.val
            THEN LET pq == SplitAt(SliceTo(str, fidx.val), qidx.val)
                     fr == SplitAt(str, fidx.val)
                 IN  [path  |-> pq[1],
                      query |-> DropDelim(pq[2]),
                      frag  |-> DropDelim(fr[2]),
                      calls |-> 1]
            ELSE LET r == parts(str, None, Some(fidx.val))
                 IN  [r EXCEPT !.calls = @ + 1]
      [] qidx.tag = "Some" /\ fidx.tag = "None" ->
            LET pq == SplitAt(str, qidx.val)
            IN  [path  |-> pq[1],
                 query |-> DropDelim(pq[2]),
                 frag  |-> <<>>,
                 calls |-> 1]
      [] qidx.tag = "None" /\ fidx.tag = "Some" ->
            LET pf == SplitAt(str, fidx.val)
            IN  [path  |-> pf[1],
                 query |-> <<>>,
                 frag  |-> DropDelim(pf[2]),
                 calls |-> 1]
      [] qidx.tag = "None" /\ fidx.tag = "None" ->
            [path |-> str, query |-> <<>>, frag |-> <<>>, calls |-> 1]

\* The call of parts made by HttpResource::new.
PartsOf(str) == parts(str, Find(str, <<"?">>), Find(str, <<"#">>))

\* Variant: an empty path is returned as it is.
HttpResourceNewRawPath(str) ==
    LET p == PartsOf(str)
    IN  IF PanicStr \in {p.path, p.query, p.frag}
        THEN Panic
        ELSE [tag      |-> "HttpResource",
              path     |-> p.path,
              query    |-> IF IsEmpty(p.query) THEN None ELSE Some(p.query),
              fragment |-> IF IsEmpty(p.frag) THEN None ELSE Some(p.frag)]

\* HttpResource::new
HttpResourceNew(str) ==
    LET p == PartsOf(str)
    IN  IF PanicStr \in {p.path, p.query, p.frag}
        THEN Panic
        ELSE [tag      |-> "HttpResource",
              path     |-> IF IsEmpty(p.path) THEN <<"/">> ELSE p.path,
              query    |-> IF IsEmpty(p.query) THEN None ELSE Some(p.query),
              fragment |-> IF IsEmpty(p.frag) THEN None ELSE Some(p.frag)]

\* Variant: the fragment is written before the query.
FmtHttpResourceFragmentFirst(r) ==
    r.path
      \o (IF r.fragment.tag = "Some" THEN <<"#">> \o r.fragment.val ELSE <<>>)
      \o (IF r.query.tag = "Some" THEN <<"?">> \o r.query.val ELSE <<>>)

\* impl Display for HttpResource
FmtHttpResource(r) ==
    r.path
      \o (IF r.query.tag = "Some" THEN <<"?">> \o r.query.val ELSE <<>>)
      \o (IF r.fragment.tag = "Some" THEN <<"#">> \o r.fragment.val ELSE <<>>)

(***************************************************************************)
(* HttpUri                                                                 *)
(***************************************************************************)
SchemeDelim == <<":", "/", "/">>

\* The number of bytes skipped after the scheme: &rest[3..]
DelimLen == 3

MaxOf(S) == CHOOSE i \in S : \A j \in S : j <= i

\* Variant: the last "://" is taken (rfind).
SplitSchemeLast(str) ==
    LET hits == {i \in 0..Len(str) : MatchesAt(str, SchemeDelim, i)}
    IN  IF hits # {} THEN Some(SplitAt(str, MaxOf(hits))) ELSE None

\* match s.find("://"): the text before the first "://" and the text from it on.
SplitScheme(str) ==
    LET idx == Find(str, SchemeDelim)
    IN  IF idx.tag = "Some" THEN Some(SplitAt(str, idx.val)) ELSE None

\* Variant: the '/' found is not kept in the resource tail.
SplitAuthorityDropSlash(rest) ==
    LET idx == Find(rest, <<"/">>)
    IN  IF idx.tag = "Some"
        THEN <<SliceTo(rest, idx.val), SliceFrom(rest, idx.val + 1)>>
        ELSE <<rest, <<>>>>

\* match rest.find('/'): the authority and the resource tail.
SplitAuthority(rest) ==
    LET idx == Find(rest, <<"/">>)
    IN  IF idx.tag = "Some" THEN SplitAt(rest, idx.val) ELSE <<rest, <<>>>>

\* Variant: an empty authority is accepted.
HttpUriNewAnyAuthority(str) ==
    LET sp == SplitScheme(str)
    IN  IF sp.tag = "None" THEN Err
        ELSE
        LET sch == HttpSchemeFromStr(sp.val[1])
        IN  IF sch.tag = "Err" THEN Err
            ELSE
            LET rest == SliceFrom(sp.val[2], DelimLen)
            IN  IF rest = PanicStr THEN Panic
                ELSE
                LET ar == SplitAuthority(rest)
                    r  == HttpResourceNew(ar[2])
                IN  IF r.tag = "Panic" THEN Panic
                    ELSE Ok([tag       |-> "HttpUri",
                             scheme    |-> sch.val,
                             authority |-> ar[1],
                             resource  |-> r])

\* HttpUri::new
HttpUriNew(str) ==
    LET sp == SplitScheme(str)
    IN  IF sp.tag = "None" THEN Err
        ELSE
        LET sch == HttpSchemeFromStr(sp.val[1])
        IN  IF sch.tag = "Err" THEN Err
            ELSE
            LET rest == SliceFrom(sp.val[2], DelimLen)
            IN  IF rest = PanicStr THEN Panic
                ELSE
                LET ar == SplitAuthority(rest)
                IN  IF IsEmpty(ar[1]) THEN Err
                    ELSE
                    LET r == HttpResourceNew(ar[2])
                    IN  IF r.tag = "Panic" THEN Panic
                        ELSE Ok([tag       |-> "HttpUri",
                                 scheme    |-> sch.val,
                                 authority |-> ar[1],
                                 resource  |-> r])

\* impl Display for HttpUri
FmtHttpUri(u) ==
    FmtHttpScheme(u.scheme) \o SchemeDelim \o u.authority
      \o FmtHttpResource(u.resource)

(***************************************************************************)
(* The state machine: a caller hands an input to one of the three parsers, *)
(* may render the value it got, and may parse the rendered text again.     *)
(***************************************************************************)
Init ==
    /\ s \in Inputs
    /\ pc = "start"
    /\ uri = NoValue
    /\ raw = NoValue
    /\ res = NoValue
    /\ scheme = NoValue
    /\ out = <<>>
    /\ back = NoValue

\* HttpUri::new(s)
NewUri ==
    /\ pc = "start"
    /\ uri' = HttpUriNew(s)
    /\ pc' = "uri"
    /\ UNCHANGED <<s, raw, res, scheme, out, back>>

\* uri.to_string()
RenderUri ==
    /\ pc = "uri"
    /\ uri.tag = "Ok"
    /\ out' = FmtHttpUri(uri.val)
    /\ pc' = "uri_fmt"
    /\ UNCHANGED <<s, uri, raw, res, scheme, back>>

\* HttpUri::new(&rendered)
ReparseUri ==
    /\ pc = "uri_fmt"
    /\ back' = HttpUriNew(out)
    /\ pc' = "uri_back"
    /\ UNCHANGED <<s, uri, raw, res, scheme, out>>

\* HttpResource::new(s)
NewResource ==
    /\ pc = "start"
    /\ raw' = PartsOf(s)
    /\ res' = HttpResourceNew(s)
    /\ pc' = "resource"
    /\ UNCHANGED <<s, uri, scheme, out, back>>

\* resource.to_string()
RenderResource ==
    /\ pc = "resource"
    /\ res.tag = "HttpResource"
    /\ out' = FmtHttpResource(res)
    /\ pc' = "resource_fmt"
    /\ UNCHANGED <<s, uri, raw, res, scheme, back>>

\* s.parse::<HttpScheme>()
ParseScheme ==
    /\ pc = "start"
    /\ scheme' = HttpSchemeFromStr(s)
    /\ pc' = "scheme"
    /\ UNCHANGED <<s, uri, raw, res, out, back>>

\* scheme.to_string()
RenderScheme ==
    /\ pc = "scheme"
    /\ scheme.tag = "Ok"
    /\ out' = FmtHttpScheme(scheme.val)
    /\ pc' = "scheme_fmt"
    /\ UNCHANGED <<s, uri, raw, res, scheme, back>>

\* rendered.parse::<HttpScheme>()
ReparseScheme ==
    /\ pc = "scheme_fmt"
    /\ back' = HttpSchemeFromStr(out)
    /\ pc' = "scheme_back"
    /\ UNCHANGED <<s, uri, raw, res, scheme, out>>

Next ==
    \/ NewUri
    \/ RenderUri
    \/ ReparseUri
    \/ NewResource
    \/ RenderResource
    \/ ParseScheme
    \/ RenderScheme
    \/ ReparseScheme

Spec == Init /\ [][Next]_vars

TypeOK ==
    /\ pc \in {"start", "uri", "uri_fmt", "uri_back", "resource", "resource_fmt",
               "scheme", "scheme_fmt", "scheme_back"}
    /\ uri.tag \in {"NoValue", "Ok", "Err", "Panic"}
    /\ res.tag \in {"NoValue", "HttpResource", "Panic"}
    /\ scheme.tag \in {"NoValue", "Ok", "Err"}

(***************************************************************************)
(* Vocabulary of the properties: positions and pieces of the input text.   *)
(***************************************************************************)
Q == <<"?">>

H == <<"#">>

\* pat occurs in str at offset i.
At(str, pat, i) ==
    /\ i >= 0
    /\ i + Len(pat) <= Len(str)
    /\ SubSeq(str, i + 1, i + Len(pat)) = pat

Occurs(str, pat) == \E i \in 0..Len(str) : At(str, pat, i)

\* The offset of the first occurrence of pat in str (when it occurs).
First(str, pat) ==
    CHOOSE i \in 0..Len(str) :
        At(str, pat, i) /\ \A j \in 0..(i - 1) : ~At(str, pat, j)

\* The characters of str at offsets lo .. hi-1.
Text(str, lo, hi) == SubSeq(str, lo + 1, hi)

\* The characters of str from offset lo to the end.
After(str, lo) == SubSeq(str, lo + 1, Len(str))

StartsWith(str, pat) == At(str, pat, 0)

Contains(str, c) == \E i \in 1..Len(str) : str[i] = c

\* The resource every empty tail parses to.
RootResource ==
    [tag |-> "HttpResource", path |-> <<"/">>, query |-> None, fragment |-> None]

(***************************************************************************)
(* C1: HttpResource::new splits the tail s, before normalization, at the   *)
(* first '?' (offset q) and the first '#' (offset f): with q < f the path  *)
(* is s[0..q), the query s(q..f) and the fragment everything after f; with *)
(* '#' and no earlier '?' the path is s[0..f), the query empty and the     *)
(* fragment everything after f, '?' included; with only '?' the path is    *)
(* s[0..q) and the query everything after q; with neither the path is s.   *)
(***************************************************************************)
C1_Split ==
    pc = "resource" =>
        LET hasQ == Occurs(s, Q)
            hasF == Occurs(s, H)
            q    == First(s, Q)
            f    == First(s, H)
        IN  /\ (hasQ /\ hasF /\ q < f) =>
                  /\ raw.path = Text(s, 0, q)
                  /\ raw.query = Text(s, q + 1, f)
                  /\ raw.frag = After(s, f + 1)
            /\ (hasF /\ (~hasQ \/ f < q)) =>
                  /\ raw.path = Text(s, 0, f)
                  /\ raw.query = <<>>
                  /\ raw.frag = After(s, f + 1)
                  /\ res.query = None
            /\ (hasQ /\ ~hasF) =>
                  /\ raw.path = Text(s, 0, q)
                  /\ raw.query = After(s, q + 1)
                  /\ raw.frag = <<>>
                  /\ res.fragment = None
            /\ (~hasQ /\ ~hasF) =>
                  /\ raw.path = s
                  /\ raw.query = <<>>
                  /\ raw.frag = <<>>
                  /\ res.query = None
                  /\ res.fragment = None
            /\ s = <<"/","a","?","x","#","y","?","z">> =>
                  /\ res.query = Some(<<"x">>)
                  /\ res.fragment = Some(<<"y","?","z">>)
            /\ s = <<"/","a","#","y","?","z">> =>
                  /\ res.query = None
                  /\ res.fragment = Some(<<"y","?","z">>)

C1_Witness ==
    /\ pc = "resource"
    /\ s = <<"/","a","#","y","?","z">>
    /\ raw.path = <<"/","a">>
    /\ raw.query = <<>>
    /\ raw.frag = <<"y","?","z">>

(***************************************************************************)
(* C2: HttpUri::new fails exactly when the input has no "://", or the text *)
(* before the first "://" is neither "http" nor "https", or the authority  *)
(* (the text between that "://" and the next '/', or the end) is empty;    *)
(* otherwise it succeeds.  Every failure is the one value Err.             *)
(***************************************************************************)
SchemeText(str) == Text(str, 0, First(str, SchemeDelim))

\* The text that follows the first "://".
AfterDelim(str) == After(str, First(str, SchemeDelim) + Len(SchemeDelim))

AuthorityText(str) ==
    LET r == AfterDelim(str)
    IN  IF Occurs(r, <<"/">>) THEN Text(r, 0, First(r, <<"/">>)) ELSE r

MustFail(str) ==
    \/ ~Occurs(str, SchemeDelim)
    \/ SchemeText(str) \notin {HttpStr, HttpsStr}
    \/ AuthorityText(str) = <<>>

C2_FailsExactlyWhen ==
    pc = "uri" =>
        /\ uri.tag \in {"Ok", "Err"}
        /\ uri = Err <=> MustFail(s)
        /\ uri.tag = "Ok" <=> ~MustFail(s)
        /\ s \in { HttpStr \o SchemeDelim,
                   HttpStr \o SchemeDelim \o <<"/">>,
                   SchemeDelim \o <<"a">>,
                   <<"f","t","p">> \o SchemeDelim \o <<"a">>,
                   <<"f","i","l","e",":","e">>,
                   <<"h","t","t",":","p","/","/","a">>,
                   <<"h","y","p","e","r",".","r","s","/">>,
                   <<"h","y","p","e","r",".","r","s","?","k","=","v">> }
              => uri = Err

C2_Witness ==
    /\ pc = "uri"
    /\ s = HttpStr \o SchemeDelim \o <<"/">>
    /\ Occurs(s, SchemeDelim)
    /\ SchemeText(s) = HttpStr
    /\ AuthorityText(s) = <<>>
    /\ uri = Err

(***************************************************************************)
(* C3: when HttpUri::new succeeds, the authority is the text after the     *)
(* first "://" up to the first '/' that follows it, and the resource is    *)
(* HttpResource::new of the remainder from that '/' on; with no such '/'   *)
(* the authority is the whole remainder and the resource is path "/", no   *)
(* query, no fragment.                                                     *)
(***************************************************************************)
C3_AuthorityAndResource ==
    (pc = "uri" /\ uri.tag = "Ok") =>
        LET r == AfterDelim(s)
        IN  IF Occurs(r, <<"/">>)
            THEN /\ uri.val.authority = Text(r, 0, First(r, <<"/">>))
                 /\ uri.val.resource = HttpResourceNew(After(r, First(r, <<"/">>)))
            ELSE /\ uri.val.authority = r
                 /\ uri.val.resource = HttpResourceNew(<<>>)
                 /\ uri.val.resource = RootResource

C3_Witness ==
    /\ pc = "uri"
    /\ s = HttpsStr \o SchemeDelim \o <<"a", ":", "a">>
    /\ uri.tag = "Ok"
    /\ uri.val.authority = <<"a", ":", "a">>
    /\ uri.val.resource = RootResource

(***************************************************************************)
(* C4: the result of HttpResource::new is normalized: the path is never    *)
(* empty, the query and the fragment are never present and empty.  ""      *)
(* and "/" parse to the same value; "?#" gives path "/" and nothing else.  *)
(***************************************************************************)
C4_Normalized ==
    pc = "resource" =>
        /\ res.tag = "HttpResource"
        /\ res.path # <<>>
        /\ raw.path = <<>> => res.path = <<"/">>
        /\ res.query # Some(<<>>)
        /\ raw.query = <<>> => res.query = None
        /\ res.fragment # Some(<<>>)
        /\ raw.frag = <<>> => res.fragment = None
        /\ s \in {<<>>, <<"/">>, <<"?", "#">>} => res = RootResource
        /\ s = <<"?","k","=","v","#">> =>
              res = [RootResource EXCEPT !.query = Some(<<"k","=","v">>)]
        /\ s = <<"?","#","a">> =>
              res = [RootResource EXCEPT !.fragment = Some(<<"a">>)]

C4_Witness ==
    /\ pc = "resource"
    /\ s = <<"?", "#">>
    /\ raw.path = <<>>
    /\ raw.query = <<>>
    /\ raw.frag = <<>>
    /\ res = RootResource

(***************************************************************************)
(* C5: round trip: for every input HttpUri::new accepts, rendering the     *)
(* value and parsing the rendered text again succeeds with an equal value, *)
(* also when the input relied on normalization.                            *)
(***************************************************************************)
C5_RoundTrip ==
    pc = "uri_back" =>
        /\ back.tag = "Ok"
        /\ back = uri

\* An input with an empty query and an empty fragment: the rendered text differs.
C5_Witness ==
    /\ pc = "uri_back"
    /\ s = HttpStr \o SchemeDelim \o <<"a", "/", "?", "#">>
    /\ out = HttpStr \o SchemeDelim \o <<"a", "/">>
    /\ back = uri

(***************************************************************************)
(* C6: HttpScheme::from_str returns Http exactly for "http" and Https      *)
(* exactly for "https" and fails for every other token; Display is its     *)
(* inverse: rendering the parsed value gives the token back, and parsing   *)
(* the rendered value gives the value back.                                *)
(***************************************************************************)
C6_SchemeInverse ==
    /\ pc = "scheme" =>
          /\ scheme = Ok("Http") <=> s = <<"h","t","t","p">>
          /\ scheme = Ok("Https") <=> s = <<"h","t","t","p","s">>
          /\ scheme \in {Ok("Http"), Ok("Https"), Err}
          /\ s \in {<<>>, <<"H","T","T","P">>, <<"h","t","t">>,
                    <<"h","t","t","p","s","s">>} => scheme = Err
    /\ pc = "scheme_fmt" => out = s
    /\ pc = "scheme_back" => back = scheme

C6_Witness ==
    /\ pc = "scheme_back"
    /\ s = <<"h","t","t","p","s">>
    /\ scheme = Ok("Https")
    /\ out = s
    /\ back = Ok("Https")

(***************************************************************************)
(* C7 as stated: the query HttpResource::new returns never begins with '?' *)
(* and the fragment never begins with '#', for every tail.                 *)
(***************************************************************************)
C7_NeverBeginsWithDelimiter ==
    pc = "resource" =>
        /\ res.query.tag = "Some" => Head(res.query.val) # "?"
        /\ res.fragment.tag = "Some" => Head(res.fragment.val) # "#"

(***************************************************************************)
(* C7 amended: exactly the one delimiter character is removed.  The query  *)
(* begins with '?' exactly when the first '?' of the tail precedes every   *)
(* '#' and is immediately followed by a second '?'; the fragment begins    *)
(* with '#' exactly when the first '#' is immediately followed by a second *)
(* '#'.  A query or fragment that is present is the text that starts right *)
(* after its delimiter.                                                    *)
(***************************************************************************)
C7_OneDelimiterRemoved ==
    pc = "resource" =>
        LET hasQ == Occurs(s, Q)
            hasF == Occurs(s, H)
            q    == First(s, Q)
            f    == First(s, H)
        IN  /\ (res.query.tag = "Some" /\ Head(res.query.val) = "?")
                  <=> (hasQ /\ (hasF => q < f) /\ At(s, <<"?", "?">>, q))
            /\ (res.fragment.tag = "Some" /\ Head(res.fragment.val) = "#")
                  <=> (hasF /\ At(s, <<"#", "#">>, f))
            /\ res.query.tag = "Some" =>
                  /\ hasQ
                  /\ At(s, res.query.val, q + 1)
            /\ res.fragment.tag = "Some" =>
                  /\ hasF
                  /\ At(s, res.fragment.val, f + 1)

C7_Witness ==
    /\ pc = "resource"
    /\ s = <<"/","a","?","?","b">>
    /\ res.query = Some(<<"?","b">>)

(***************************************************************************)
(* C8: HttpResource::new is total: for every tail every slice index is in  *)
(* bounds, so it returns a value, and parts is re-entered at most once     *)
(* (exactly when a '#' precedes the first '?').  HttpUri::new never panics *)
(* either: skipping the 3 bytes of "://" is always in bounds.              *)
(***************************************************************************)
C8_Total ==
    /\ pc = "resource" =>
          /\ res.tag = "HttpResource"
          /\ PanicStr \notin {raw.path, raw.query, raw.frag}
          /\ raw.calls \in {1, 2}
          /\ raw.calls = 2 <=>
                (Occurs(s, Q) /\ Occurs(s, H) /\ First(s, H) < First(s, Q))
    /\ pc = "uri" => uri.tag \in {"Ok", "Err"}
    /\ pc = "uri_back" => back.tag \in {"Ok", "Err"}

C8_Witness ==
    /\ pc = "resource"
    /\ s = <<"#", "?">>
    /\ raw.calls = 2
    /\ res = [RootResource EXCEPT !.fragment = Some(<<"?">>)]

(***************************************************************************)
(* C9: the path HttpResource::new returns contains neither '?' nor '#',    *)
(* and the query contains no '#'.  So in the rendered text the first '?'   *)
(* (when a query is present) and the first '#' (when a fragment is         *)
(* present) are the delimiters Display wrote.                              *)
(***************************************************************************)
QueryLen(r) == IF r.query.tag = "Some" THEN 1 + Len(r.query.val) ELSE 0

C9_ComponentsFreeOfDelimiters ==
    /\ pc \in {"resource", "resource_fmt"} =>
          /\ ~Contains(res.path, "?")
          /\ ~Contains(res.path, "#")
          /\ res.query.tag = "Some" => ~Contains(res.query.val, "#")
    /\ pc = "resource_fmt" =>
          /\ res.query.tag = "Some" =>
                (Occurs(out, Q) /\ First(out, Q) = Len(res.path))
          /\ res.fragment.tag = "Some" =>
                (Occurs(out, H) /\ First(out, H) = Len(res.path) + QueryLen(res))
          /\ (res.query.tag = "None" /\ Occurs(out, Q)) =>
                (res.fragment.tag = "Some" /\ First(out, H) < First(out, Q))
          /\ res.fragment.tag = "None" => ~Occurs(out, H)

\* A query holding a second '?', a fragment holding both delimiters.
C9_Witness ==
    /\ pc = "resource_fmt"
    /\ s = <<"/", "a", "?", "?", "#", "#", "?">>
    /\ res.path = <<"/", "a">>
    /\ res.query = Some(<<"?">>)
    /\ res.fragment = Some(<<"#", "?">>)
    /\ out = s

(***************************************************************************)
(* C10: HttpUri::new succeeds iff the input begins with "http://" or       *)
(* "https://" and the next character exists and is not '/'.  On success    *)
(* the authority is non-empty and has no '/', the path begins with '/',    *)
(* and the input begins with scheme, "://", authority: a later "://" does  *)
(* not move the split.                                                     *)
(***************************************************************************)
GoodPrefix(str, pre) ==
    /\ StartsWith(str, pre)
    /\ Len(str) > Len(pre)
    /\ str[Len(pre) + 1] # "/"

C10_SuccessIffPrefix ==
    pc = "uri" =>
        /\ uri.tag = "Ok" <=>
              \/ GoodPrefix(s, <<"h","t","t","p",":","/","/">>)
              \/ GoodPrefix(s, <<"h","t","t","p","s",":","/","/">>)
        /\ uri.tag = "Ok" =>
              LET u   == uri.val
                  tok == IF u.scheme = "Http" THEN <<"h","t","t","p">>
                         ELSE <<"h","t","t","p","s">>
              IN  /\ u.authority # <<>>
                  /\ ~Contains(u.authority, "/")
                  /\ Head(u.resource.path) = "/"
                  /\ StartsWith(s, tok \o <<":","/","/">> \o u.authority)
                  /\ Len(s) > Len(tok) + 3 + Len(u.authority)
                        => s[Len(tok) + 3 + Len(u.authority) + 1] = "/"

C10_Witness ==
    /\ pc = "uri"
    /\ s = <<"h","t","t","p",":","/","/","a","/","b",":","/","/","c">>
    /\ uri.tag = "Ok"
    /\ uri.val.scheme = "Http"
    /\ uri.val.authority = <<"a">>
    /\ uri.val.resource.path = <<"/","b",":","/","/","c">>
====
